---- MODULE Spec2Model ----
(***************************************************************************)
(* A model of NetFieldProxyWebSocketClient                                 *)
(* (src/NetFieldProxyWebSocketClient.js): one client instance, the         *)
(* WebSocket it owns, the events the transport raises on it and the        *)
(* operations a caller may invoke on it.                                   *)
(*                                                                         *)
(* Strings that enter the subscription path (deviceId, topic) are          *)
(* sequences of character codes, so that btoa and the path template are    *)
(* computed; all other strings are atoms.                                  *)
(***************************************************************************)
EXTENDS Naturals, Sequences, FiniteSets

VARIABLES
    topic,          \* this.topic (plaintext, character codes)
    readyState,     \* wsClient.readyState
    opened,         \* whether the socket has raised its open event
    wire,           \* the strings handed to wsClient.send, in order
    wsCloseCalls,   \* number of wsClient.close invocations
    closeCalls,     \* number of closeHandler invocations
    event,          \* the latest event or caller operation
    calls,          \* handler invocations made while handling the latest event
    attempts,       \* the strings passed to this.send while handling the latest event
    uncaught,       \* whether an exception escaped the latest handler run
    helloAck,       \* an error-free hello frame has been received while open
    subAck,         \* an error-free sub frame has been received after helloAck
    received,       \* the ping and pub frames received while ACTIVE, in order
    handled,        \* the ping answers written and the publish handler
                    \* invocations made while ACTIVE, in order
    run             \* progress of the plain handshake run open, hello, sub

vars == <<topic, readyState, opened, wire, wsCloseCalls, closeCalls, event, calls,
          attempts, uncaught, helloAck, subAck, received, handled, run>>

----------------------------------------------------------------------------
(* Bounds *)

\* the longest transcript of written frames the model follows
MaxWire == 3

\* the longest record of frames received while ACTIVE the model follows
MaxLog == 3

----------------------------------------------------------------------------
(* JavaScript values *)

Undefined == "<undefined>"

\* JavaScript truthiness of a string-or-undefined value
Truthy(v) == v \notin {Undefined, ""}

----------------------------------------------------------------------------
(* Session identity: the constructor's arguments *)

\* "D1"
DeviceId == <<68, 49>>

\* "/", "/t", "/t1": one topic for each base64 padding
Topics == { <<47>>, <<47, 116>>, <<47, 116, 49>> }

\* the other device a caller may subscribe to: "D2"
OtherDeviceId == <<68, 50>>

ClientId == "k3x9a"

Authorization == "token"

----------------------------------------------------------------------------
(* btoa: base64 of a Latin-1 string *)

B64Char(i) ==
    IF i < 26 THEN 65 + i
    ELSE IF i < 52 THEN 97 + (i - 26)
    ELSE IF i < 62 THEN 48 + (i - 52)
    ELSE IF i = 62 THEN 43 ELSE 47

RECURSIVE Btoa(_)
Btoa(s) ==
    IF Len(s) = 0 THEN <<>>
    ELSE IF Len(s) = 1 THEN
        << B64Char(s[1] \div 4), B64Char((s[1] % 4) * 16), 61, 61 >>
    ELSE IF Len(s) = 2 THEN
        << B64Char(s[1] \div 4),
           B64Char((s[1] % 4) * 16 + (s[2] \div 16)),
           B64Char((s[2] % 16) * 4), 61 >>
    ELSE
        << B64Char(s[1] \div 4),
           B64Char((s[1] % 4) * 16 + (s[2] \div 16)),
           B64Char((s[2] % 16) * 4 + (s[3] \div 64)),
           B64Char(s[3] % 64) >> \o Btoa(SubSeq(s, 4, Len(s)))

----------------------------------------------------------------------------
(* Outbound strings *)

NoPath == <<>>

\* an object literal of the client; absent properties are Undefined / NoPath
Obj(type, id, version, authorization, path) ==
    [type |-> type, id |-> id, version |-> version,
     authorization |-> authorization, path |-> path]

\* JSON.stringify: the JSON text of an object
JSONStringify(obj) == [json |-> TRUE, body |-> obj]

\* a string that is not the JSON text of an object
PlainText == [json |-> FALSE,
              body |-> Obj(Undefined, Undefined, Undefined, Undefined, NoPath)]

\* "/devices/"
DevicesPrefix == <<47, 100, 101, 118, 105, 99, 101, 115, 47>>

\* "/netfieldproxy/"
NetfieldproxyInfix ==
    <<47, 110, 101, 116, 102, 105, 101, 108, 100, 112, 114, 111, 120, 121, 47>>

\* a path that carries the topic as it is
TopicSegmentPlain(t) == t

\* const topicAsBase64 = btoa(topic)
TopicSegment(t) == Btoa(t)

\* `/devices/${deviceId}/netfieldproxy/${topicAsBase64}`
Path(d, t) == DevicesPrefix \o d \o NetfieldproxyInfix \o TopicSegment(t)

----------------------------------------------------------------------------
(* Inbound strings: what the transport may deliver as event.data *)

Types == {"hello", "sub", "ping", "pub", "other", Undefined}

\* payload.error of an inbound object: missing, empty (falsy) or non-empty
Errors == {Undefined, "", "boom"}

\* the message property of an inbound object: missing, or a proxy message
Messages == {Undefined, "m1"}

Frame(json, type, hasPayload, error, message) ==
    [json |-> json, type |-> type, hasPayload |-> hasPayload,
     error |-> error, message |-> message]

NoFrame == Frame("none", Undefined, FALSE, Undefined, Undefined)

\* the event objects the socket passes to onerror and onclose: an error event
\* carries the error, a close event the close code and the reason
ErrorEvent(error) == Frame("ErrorEvent", Undefined, FALSE, error, Undefined)

CloseEvent(code, reason) == Frame("CloseEvent", code, FALSE, Undefined, reason)

ErrorEvents == { ErrorEvent("ECONNRESET"), ErrorEvent("ETIMEDOUT") }

CloseEvents == { CloseEvent("1000", "bye"), CloseEvent("1006", "") }

\* JSON texts of objects: every type without a payload, with a payload whose
\* error is falsy and with one whose error is truthy; a pub carries a message
ObjectFrames ==
    { Frame("object", ty, FALSE, Undefined, Undefined) : ty \in Types }
    \cup { Frame("object", ty, TRUE, er, Undefined) :
            ty \in Types, er \in Errors \ {Undefined} }
    \cup { Frame("object", "pub", hp, IF hp THEN er ELSE Undefined, msg) :
            hp \in BOOLEAN, er \in Errors, msg \in Messages \ {Undefined} }

\* not JSON at all; the JSON text null; the JSON text of a number
Frames ==
    ObjectFrames
    \cup { Frame("garbage", Undefined, FALSE, Undefined, Undefined),
           Frame("null", Undefined, FALSE, Undefined, Undefined),
           Frame("scalar", Undefined, FALSE, Undefined, Undefined) }

\* the frames of an orderly server: the four types without error, and a
\* hello that reports an error
ServerFrames ==
    { Frame("object", ty, FALSE, Undefined, Undefined) :
        ty \in {"hello", "sub", "ping"} }
    \cup { Frame("object", "pub", FALSE, Undefined, "m1"),
           Frame("object", "hello", TRUE, "boom", Undefined) }

\* `payload && payload.error`
PayloadError(data) == IF data.hasPayload THEN data.error ELSE Undefined

----------------------------------------------------------------------------
(* Handler invocations *)

NoThrow == "<none>"

Call(handler, kind, frame, val, threw) ==
    [handler |-> handler, kind |-> kind, frame |-> frame, val |-> val,
     threw |-> threw]

Handlers == {"pub", "unexpected", "error"}

\* the handlers that raise when invoked during one event: none, the publish
\* and unexpected-message handlers, or every handler
BadSets == { {}, {"pub", "unexpected"}, Handlers }

\* handler(data): the raw inbound string
CallData(h, data, bad) == Call(h, "data", data, Undefined, h \in bad)

\* a publish handler that is given the whole inbound string
CallMessageWhole(data, bad) == Call("pub", "data", data, Undefined, "pub" \in bad)

\* pubMessageHandler(message)
CallMessage(data, bad) ==
    Call("pub", "message", NoFrame, data.message, "pub" \in bad)

\* errorHandler(error): the caught exception
CallCaught(exc, bad) == Call("error", "exception", NoFrame, exc, "error" \in bad)

\* a handler wired directly to the socket, invoked with the transport's event
\* a wiring that passes every transport event to the error handler
CallEventToErrorHandler(h, ev) == Call("error", "event", ev, Undefined, FALSE)

CallEvent(h, ev) == Call(h, "event", ev, Undefined, FALSE)

----------------------------------------------------------------------------
(* The client's methods. io is the transcript written so far, the strings  *)
(* passed to send during the current event, whether wsClient.send raises   *)
(* during this event, and whether it has raised.                           *)

IO(w, a) == [wire |-> w, attempts |-> a, failing |-> FALSE, raised |-> FALSE]

\* the socket during an event in which wsClient.send raises or does not
Socket(w, failing) == [IO(w, <<>>) EXCEPT !.failing = failing]

\* a send that does not look at the socket's state
SendGuardNone(rs) == TRUE

\* a send that only waits for the socket to have left CONNECTING
SendGuardNotConnecting(rs) == rs # "CONNECTING"

\* the guard of send: wsClient && wsClient.readyState === wsClient.OPEN
SendGuard(rs) == rs = "OPEN"

Send(io, rs, dataString) ==
    IF SendGuard(rs)
    THEN IF io.failing
         THEN [io EXCEPT !.attempts = Append(io.attempts, dataString),
                         !.raised = TRUE]
         ELSE [io EXCEPT !.wire = Append(io.wire, dataString),
                         !.attempts = Append(io.attempts, dataString)]
    ELSE [io EXCEPT !.attempts = Append(io.attempts, dataString)]

SendObject(io, rs, dataObj) == Send(io, rs, JSONStringify(dataObj))

SubscribePayload(d, t) == Obj("sub", ClientId, Undefined, Undefined, Path(d, t))

SubscribeToTopic(io, rs, d, t) == SendObject(io, rs, SubscribePayload(d, t))

HelloPayload == Obj("hello", ClientId, "2", Authorization, NoPath)

\* an open handler that sends nothing
SayHelloSilent(io, rs) == io

SayHello(io, rs) == SendObject(io, rs, HelloPayload)

\* a ping response that does not name the client
PingResponseNoId == Obj("ping", Undefined, Undefined, Undefined, NoPath)

PingResponsePayload == Obj("ping", ClientId, Undefined, Undefined, NoPath)

\* a heartbeat that is never answered
RespondToHeartbeatPingNever(io, rs) == io

RespondToHeartbeatPing(io, rs) == SendObject(io, rs, PingResponsePayload)

\* a close that only looks whether the socket has closed
CloseGuardNotClosed(rs) == rs # "CLOSED"

\* the guard of close: wsClient && wsClient.readyState === wsClient.OPEN
CloseGuard(rs) == rs = "OPEN"

----------------------------------------------------------------------------
(* _messageHandler *)

Result(io, cs, thrown) == [io |-> io, calls |-> cs, thrown |-> thrown]

Thrown(h, bad) == IF h \in bad THEN "HandlerError" ELSE NoThrow

\* the exception of a wsClient.send that raised
SendThrown(io) == IF io.raised THEN "SendError" ELSE NoThrow

\* a switch whose hello case does nothing
DispatchHelloIgnored(data, io, rs, t, bad) ==
    CASE data.type \in {"hello", "sub"} -> Result(io, <<>>, NoThrow)
      [] data.type = "ping" ->
            Result(RespondToHeartbeatPing(io, rs), <<>>, NoThrow)
      [] data.type = "pub" ->
            Result(io, <<CallMessage(data, bad)>>, Thrown("pub", bad))
      [] OTHER ->
            Result(io, <<CallData("unexpected", data, bad)>>,
                   Thrown("unexpected", bad))

\* a switch whose hello case says hello again before subscribing
DispatchHelloAgain(data, io, rs, t, bad) ==
    CASE data.type = "hello" ->
            Result(SubscribeToTopic(SayHello(io, rs), rs, DeviceId, t), <<>>, NoThrow)
      [] data.type = "sub" -> Result(io, <<>>, NoThrow)
      [] data.type = "ping" ->
            Result(RespondToHeartbeatPing(io, rs), <<>>, NoThrow)
      [] data.type = "pub" ->
            Result(io, <<CallMessage(data, bad)>>, Thrown("pub", bad))
      [] OTHER ->
            Result(io, <<CallData("unexpected", data, bad)>>,
                   Thrown("unexpected", bad))

\* a switch whose default case reports an error
DispatchDefaultToError(data, io, rs, t, bad) ==
    CASE data.type = "hello" ->
            Result(SubscribeToTopic(io, rs, DeviceId, t), <<>>, NoThrow)
      [] data.type = "sub" -> Result(io, <<>>, NoThrow)
      [] data.type = "ping" ->
            Result(RespondToHeartbeatPing(io, rs), <<>>, NoThrow)
      [] data.type = "pub" ->
            Result(io, <<CallMessage(data, bad)>>, Thrown("pub", bad))
      [] OTHER ->
            Result(io, <<CallData("error", data, bad)>>, Thrown("error", bad))

\* a switch without the case for pub
DispatchWithoutPub(data, io, rs, t, bad) ==
    CASE data.type = "hello" ->
            Result(SubscribeToTopic(io, rs, DeviceId, t), <<>>, NoThrow)
      [] data.type = "sub" -> Result(io, <<>>, NoThrow)
      [] data.type = "ping" ->
            Result(RespondToHeartbeatPing(io, rs), <<>>, NoThrow)
      [] OTHER ->
            Result(io, <<CallData("unexpected", data, bad)>>,
                   Thrown("unexpected", bad))

\* the switch on type
Dispatch(data, io, rs, t, bad) ==
    CASE data.type = "hello" ->
            LET sent == SubscribeToTopic(io, rs, DeviceId, t)
            IN  Result(sent, <<>>, SendThrown(sent))
      [] data.type = "sub" -> Result(io, <<>>, NoThrow)
      [] data.type = "ping" ->
            LET sent == RespondToHeartbeatPing(io, rs)
            IN  Result(sent, <<>>, SendThrown(sent))
      [] data.type = "pub" ->
            Result(io, <<CallMessage(data, bad)>>, Thrown("pub", bad))
      [] OTHER ->
            Result(io, <<CallData("unexpected", data, bad)>>,
                   Thrown("unexpected", bad))

\* a handler that looks at the type before the error
MessageHandlerTryTypeFirst(data, io, rs, t, bad) ==
    IF data.json = "garbage" THEN Result(io, <<>>, "SyntaxError")
    ELSE IF data.json = "null" THEN Result(io, <<>>, "TypeError")
    ELSE IF data.type \in {"hello", "sub", "ping", "pub"}
         THEN Dispatch(data, io, rs, t, bad)
         ELSE IF Truthy(PayloadError(data))
              THEN Result(io, <<CallData("error", data, bad)>>, Thrown("error", bad))
              ELSE Dispatch(data, io, rs, t, bad)

\* the try block
MessageHandlerTry(data, io, rs, t, bad) ==
    IF data.json = "garbage" THEN Result(io, <<>>, "SyntaxError")
    ELSE IF data.json = "null" THEN Result(io, <<>>, "TypeError")
    ELSE IF Truthy(PayloadError(data))
         THEN Result(io, <<CallData("error", data, bad)>>, Thrown("error", bad))
         ELSE Dispatch(data, io, rs, t, bad)

\* a message handler without the catch clause
MessageHandlerNoCatch(data, io, rs, t, bad) ==
    LET r == MessageHandlerTry(data, io, rs, t, bad)
    IN  [io |-> r.io, calls |-> r.calls, uncaught |-> r.thrown # NoThrow]

\* a catch clause that swallows the exception
MessageHandlerCatchSilent(data, io, rs, t, bad) ==
    LET r == MessageHandlerTry(data, io, rs, t, bad)
    IN  [io |-> r.io, calls |-> r.calls, uncaught |-> FALSE]

\* the try block and its catch
MessageHandler(data, io, rs, t, bad) ==
    LET r == MessageHandlerTry(data, io, rs, t, bad)
    IN  IF r.thrown = NoThrow
        THEN [io |-> r.io, calls |-> r.calls, uncaught |-> FALSE]
        ELSE [io |-> r.io,
              calls |-> Append(r.calls, CallCaught(r.thrown, bad)),
              uncaught |-> "error" \in bad]

----------------------------------------------------------------------------
(* Observers: the protocol phase of the connection, read off the socket    *)
(* state and the acknowledgements received so far.                         *)

\* an inbound object of the given type without a truthy payload.error
ErrorFree(data, ty) ==
    data.json = "object" /\ ~Truthy(PayloadError(data)) /\ data.type = ty

Phase ==
    IF readyState = "CONNECTING" THEN "CONNECTING"
    ELSE IF readyState \in {"CLOSING", "CLOSED"} THEN "CLOSED"
    ELSE IF ~helloAck THEN "AWAITING_HELLO_ACK"
    ELSE IF ~subAck THEN "SUBSCRIBING"
    ELSE "ACTIVE"

HelloAckAfter(data) ==
    helloAck \/ (readyState = "OPEN" /\ ErrorFree(data, "hello"))

SubAckAfter(data) ==
    subAck \/ (readyState = "OPEN" /\ helloAck /\ ErrorFree(data, "sub"))

\* the run that is exactly: transport opens, error-free hello, error-free sub
RunAfter(kind, data) ==
    IF run = "start" /\ kind = "open" THEN "opened"
    ELSE IF run = "opened" /\ kind = "message" /\ ErrorFree(data, "hello")
         THEN "helloAcked"
    ELSE IF run = "helloAcked" /\ kind = "message" /\ ErrorFree(data, "sub")
         THEN "subAcked"
    ELSE "other"

Event(kind, data) == [kind |-> kind, frame |-> data]

----------------------------------------------------------------------------
(* Initial state: after the constructor, the socket is connecting *)

Init ==
    /\ topic \in Topics
    /\ readyState = "CONNECTING"
    /\ opened = FALSE
    /\ wire = <<>>
    /\ wsCloseCalls = 0
    /\ closeCalls = 0
    /\ event = Event("new", NoFrame)
    /\ calls = <<>>
    /\ attempts = <<>>
    /\ uncaught = FALSE
    /\ helloAck = FALSE
    /\ subAck = FALSE
    /\ received = <<>>
    /\ handled = <<>>
    /\ run = "start"

----------------------------------------------------------------------------
(* Transport events *)

\* client.onopen = this._sayHello.bind(this)
OnOpen ==
    /\ readyState = "CONNECTING"
    /\ readyState' = "OPEN"
    /\ opened' = TRUE
    /\ LET io == SayHello(IO(wire, <<>>), "OPEN")
       IN  /\ wire' = io.wire
           /\ attempts' = io.attempts
    /\ Len(wire') <= MaxWire
    /\ calls' = <<>>
    /\ uncaught' = FALSE
    /\ event' = Event("open", NoFrame)
    /\ run' = RunAfter("open", NoFrame)
    /\ UNCHANGED <<topic, wsCloseCalls, closeCalls, helloAck, subAck,
                   received, handled>>

\* client.onmessage = this._messageHandler.bind(this); a socket that has
\* opened delivers messages while open and, once closing, until it has closed
Deliver(frames, badSets, sockets) ==
    /\ readyState \in {"OPEN", "CLOSING"}
    /\ opened
    /\ \E data \in frames, bad \in badSets, failing \in sockets :
        LET r == MessageHandler(data, Socket(wire, failing), readyState, topic, bad)
        IN  /\ wire' = r.io.wire
            /\ attempts' = r.io.attempts
            /\ calls' = r.calls
            /\ uncaught' = r.uncaught
            /\ event' = Event("message", data)
            /\ run' = RunAfter("message", data)
            /\ helloAck' = HelloAckAfter(data)
            /\ subAck' = SubAckAfter(data)
    /\ Len(wire') <= MaxWire
    /\ UNCHANGED <<topic, readyState, opened, wsCloseCalls, closeCalls>>

\* any inbound string, with handlers that may raise
OnMessage == Deliver(Frames, BadSets, {FALSE}) /\ UNCHANGED <<received, handled>>

\* the frames of an orderly server, with handlers that return
OnServerMessage ==
    Deliver(ServerFrames, {{}}, {FALSE}) /\ UNCHANGED <<received, handled>>

\* a delivery during which wsClient.send may raise
OnMessageFaulty ==
    Deliver(Frames, BadSets, BOOLEAN) /\ UNCHANGED <<received, handled>>

\* the frames of a server that publishes and pings: the four types without
\* error, two different pub messages, and a ping that reports an error
ActiveFrames ==
    { Frame("object", ty, FALSE, Undefined, Undefined) :
        ty \in {"hello", "sub", "ping", "pub"} }
    \cup { Frame("object", "pub", FALSE, Undefined, "m1"),
           Frame("object", "ping", TRUE, "boom", Undefined) }

\* an entry of the records: a ping, or a pub and its message
Entry(type, message) == [type |-> type, message |-> message]

\* the entry of an error-free ping or pub frame
Inbound(data) ==
    IF ErrorFree(data, "ping") \/ ErrorFree(data, "pub")
    THEN <<Entry(data.type, IF data.type = "pub" THEN data.message ELSE Undefined)>>
    ELSE <<>>

\* the ping answers among the strings w, in order
RECURSIVE PingAnswers(_)
PingAnswers(w) ==
    IF w = <<>> THEN <<>>
    ELSE (IF Head(w).json /\ Head(w).body.type = "ping"
          THEN <<Entry("ping", Undefined)>> ELSE <<>>) \o PingAnswers(Tail(w))

\* the publish handler invocations among the calls c, in order
RECURSIVE PubCalls(_)
PubCalls(c) ==
    IF c = <<>> THEN <<>>
    ELSE (IF Head(c).handler = "pub"
          THEN <<Entry("pub", Head(c).val)>> ELSE <<>>) \o PubCalls(Tail(c))

\* a delivery that records, while the connection is ACTIVE, what came in and
\* what the message handler did about it
OnActiveMessage ==
    /\ Deliver(ActiveFrames, BadSets, {FALSE})
    /\ IF Phase = "ACTIVE"
       THEN /\ received' = received \o Inbound(event'.frame)
            /\ handled' = handled
                           \o PingAnswers(SubSeq(wire', Len(wire) + 1, Len(wire')))
                           \o PubCalls(calls')
       ELSE UNCHANGED <<received, handled>>
    /\ Len(received') <= MaxLog

\* client.onerror = this.errorHandler; the socket may start closing on an error
OnError ==
    /\ readyState \in {"CONNECTING", "OPEN", "CLOSING"}
    /\ readyState' \in {readyState, "CLOSING"}
    /\ \E ev \in ErrorEvents :
         /\ calls' = <<CallEvent("error", ev)>>
         /\ event' = Event("error", ev)
    /\ attempts' = <<>>
    /\ uncaught' = FALSE
    /\ run' = RunAfter("error", NoFrame)
    /\ UNCHANGED <<topic, opened, wire, wsCloseCalls, closeCalls, helloAck, subAck,
                   received, handled>>

\* client.onclose = this.closeHandler; raised once, when the socket has closed
OnClose ==
    /\ readyState \in {"CONNECTING", "OPEN", "CLOSING"}
    /\ readyState' = "CLOSED"
    /\ \E ev \in CloseEvents :
         /\ calls' = <<CallEvent("close", ev)>>
         /\ event' = Event("close", ev)
    /\ closeCalls' = closeCalls + 1
    /\ attempts' = <<>>
    /\ uncaught' = FALSE
    /\ run' = RunAfter("close", NoFrame)
    /\ UNCHANGED <<topic, opened, wire, wsCloseCalls, helloAck, subAck,
                   received, handled>>

----------------------------------------------------------------------------
(* Caller operations *)

\* what a caller may pass to send: a plain string, or a sub frame of its own
CallerStrings == {PlainText, JSONStringify(SubscribePayload(OtherDeviceId, <<47>>))}

\* what a caller may pass to sendObject
CallerObjects == {Obj("request", "r1", Undefined, Undefined, NoPath)}

CallerOp(kind, io) ==
    /\ wire' = io.wire
    /\ attempts' = io.attempts
    /\ Len(wire') <= MaxWire
    /\ calls' = <<>>
    /\ uncaught' = FALSE
    /\ event' = Event(kind, NoFrame)
    /\ run' = RunAfter(kind, NoFrame)
    /\ UNCHANGED <<topic, readyState, opened, wsCloseCalls, closeCalls, helloAck, subAck,
                   received, handled>>

CallSend ==
    \E dataString \in CallerStrings :
        CallerOp("send", Send(IO(wire, <<>>), readyState, dataString))

CallSendObject ==
    \E dataObj \in CallerObjects :
        CallerOp("sendObject", SendObject(IO(wire, <<>>), readyState, dataObj))

CallSubscribeToTopic ==
    \E d \in {DeviceId, OtherDeviceId} :
      \E t \in (IF d = DeviceId THEN {topic} ELSE {<<47>>}) :
        CallerOp("subscribeToTopic",
                 SubscribeToTopic(IO(wire, <<>>), readyState, d, t))

\* close(code, data): wsClient.close moves an open socket to CLOSING
CallClose ==
    /\ IF CloseGuard(readyState)
       THEN /\ wsCloseCalls' = wsCloseCalls + 1
            /\ readyState' = IF readyState = "OPEN" THEN "CLOSING" ELSE readyState
       ELSE UNCHANGED <<wsCloseCalls, readyState>>
    /\ calls' = <<>>
    /\ attempts' = <<>>
    /\ uncaught' = FALSE
    /\ event' = Event("close()", NoFrame)
    /\ run' = RunAfter("close()", NoFrame)
    /\ UNCHANGED <<topic, opened, wire, closeCalls, helloAck, subAck,
                   received, handled>>

----------------------------------------------------------------------------

\* the connection as the transport and the server drive it, and close()
Next ==
    \/ OnOpen
    \/ OnMessage
    \/ OnError
    \/ OnClose
    \/ CallClose

Spec == Init /\ [][Next]_vars

\* the transport reports the closure of a socket that is closing
ClosureReported == readyState = "CLOSING" /\ OnClose

\* the connection when the transport does report the closure it was asked for
SpecClosure == Init /\ [][Next]_vars /\ WF_vars(ClosureReported)

\* the connection of a publishing server, with the record of what was
\* received and handled while ACTIVE
NextActive ==
    \/ OnOpen
    \/ OnActiveMessage
    \/ OnError
    \/ OnClose
    \/ CallClose

SpecActive == Init /\ [][NextActive]_vars

\* the connection on a socket whose send may raise
NextFaulty ==
    \/ OnOpen
    \/ OnMessageFaulty
    \/ OnError
    \/ OnClose
    \/ CallClose

SpecFaulty == Init /\ [][NextFaulty]_vars

\* the frames that are no acknowledgement and no heartbeat
QuietFrames ==
    { data \in Frames :
        ~ErrorFree(data, "hello") /\ ~ErrorFree(data, "sub") /\ ~ErrorFree(data, "ping") }

\* the server acknowledges the hello frame it has received
ServerAnswersHello ==
    /\ Phase = "AWAITING_HELLO_ACK"
    /\ \E i \in 1..Len(wire) : wire[i].json /\ wire[i].body.type = "hello"
    /\ Deliver({Frame("object", "hello", FALSE, Undefined, Undefined)}, {{}}, {FALSE})
    /\ UNCHANGED <<received, handled>>

\* the server acknowledges the sub frame it has received
ServerAnswersSub ==
    /\ Phase = "SUBSCRIBING"
    /\ \E i \in 1..Len(wire) : wire[i].json /\ wire[i].body.type = "sub"
    /\ Deliver({Frame("object", "sub", FALSE, Undefined, Undefined)}, {{}}, {FALSE})
    /\ UNCHANGED <<received, handled>>

\* any other frame, at any time
OnQuietMessage ==
    Deliver(QuietFrames, BadSets, {FALSE}) /\ UNCHANGED <<received, handled>>

\* a transport error that leaves the socket as it is
OnErrorStayingOpen == OnError /\ readyState' = readyState

\* the connection on a socket that opens and stays open, with a server that
\* answers the handshake frames it receives
NextHandshake ==
    \/ OnOpen
    \/ ServerAnswersHello
    \/ ServerAnswersSub
    \/ OnQuietMessage
    \/ OnErrorStayingOpen

SpecHandshake ==
    /\ Init /\ [][NextHandshake]_vars
    /\ WF_vars(OnOpen)
    /\ WF_vars(ServerAnswersHello)
    /\ WF_vars(ServerAnswersSub)

\* the connection with a caller that uses every public operation
NextCaller ==
    \/ OnOpen
    \/ OnServerMessage
    \/ OnError
    \/ OnClose
    \/ CallSend
    \/ CallSendObject
    \/ CallSubscribeToTopic
    \/ CallClose

SpecCaller == Init /\ [][NextCaller]_vars

----------------------------------------------------------------------------
(* Vocabulary of the properties *)

\* the indices of the sub frames on the wire
SubFrames(w) == { i \in 1..Len(w) : w[i].json /\ w[i].body.type = "sub" }

\* the latest step handled the inbound string of an object without a truthy
\* payload.error and of the given type
Handled(ty) == event.kind = "message" /\ ErrorFree(event.frame, ty)

\* known answers: base64 of "/", "/t", "/t1" is "Lw==", "L3Q=", "L3Qx"
KnownBase64(t) ==
    CASE t = <<47>> -> <<76, 119, 61, 61>>
      [] t = <<47, 116>> -> <<76, 51, 81, 61>>
      [] t = <<47, 116, 49>> -> <<76, 51, 81, 120>>

\* "/devices/D1/netfieldproxy/" followed by the base64 of the topic
KnownPath(t) ==
    <<47, 100, 101, 118, 105, 99, 101, 115, 47, 68, 49, 47, 110, 101, 116,
      102, 105, 101, 108, 100, 112, 114, 111, 120, 121, 47>> \o KnownBase64(t)

----------------------------------------------------------------------------
(* C1: after the run in which the transport opens and the server sends an  *)
(* error-free hello and then an error-free sub, and nothing else happens,  *)
(* the phase is ACTIVE and exactly one sub frame is on the wire; its path  *)
(* is /devices/{deviceId}/netfieldproxy/{base64(topic)} and does not end   *)
(* in the plaintext topic.                                                 *)
C1_HandshakeReachesActive ==
    run = "subAcked" =>
        /\ Phase = "ACTIVE"
        /\ Cardinality(SubFrames(wire)) = 1
        /\ \A i \in SubFrames(wire) :
            /\ wire[i].body.path = KnownPath(topic)
            /\ wire[i].body.id = ClientId
            /\ SubSeq(wire[i].body.path,
                      Len(wire[i].body.path) - Len(topic) + 1,
                      Len(wire[i].body.path)) # topic

C1_Witness ==
    /\ run = "subAcked"
    /\ Len(wire) = 2
    /\ wire[2].body.type = "sub"
    /\ topic = <<47, 116>>

----------------------------------------------------------------------------
(* C2: an inbound string that decodes and carries a truthy payload.error   *)
(* is handed to the error handler, whatever its type and the phase: the    *)
(* first invocation is the error handler with that string, no other        *)
(* handler is invoked, nothing is sent and the phase is unchanged.         *)
C2_ErrorFrameToErrorHandler ==
    [][ (event'.kind = "message" /\ event'.frame.json = "object"
           /\ Truthy(PayloadError(event'.frame)))
        => /\ Len(calls') >= 1
           /\ calls'[1].handler = "error"
           /\ calls'[1].kind = "data"
           /\ calls'[1].frame = event'.frame
           /\ \A i \in 1..Len(calls') : calls'[i].handler = "error"
           /\ wire' = wire
           /\ attempts' = <<>>
           /\ Phase' = Phase ]_vars

\* an erroneous hello while awaiting the hello acknowledgement
C2_Witness ==
    /\ event.kind = "message"
    /\ event.frame.type = "hello"
    /\ Truthy(PayloadError(event.frame))
    /\ Phase = "AWAITING_HELLO_ACK"
    /\ Len(calls) = 1
    /\ calls[1].handler = "error"
    /\ Len(wire) = 1

----------------------------------------------------------------------------
(* C3: an error-free ping received while ACTIVE is answered by exactly one *)
(* frame, of type ping, whose id is the client id, the id of every earlier *)
(* frame of the connection; the phase stays ACTIVE.                        *)
C3_PingAnswered ==
    [][ (event'.kind = "message" /\ ErrorFree(event'.frame, "ping")
           /\ Phase = "ACTIVE")
        => /\ Len(wire') = Len(wire) + 1
           /\ SubSeq(wire', 1, Len(wire)) = wire
           /\ wire'[Len(wire')] =
                [json |-> TRUE,
                 body |-> [type |-> "ping", id |-> ClientId,
                           version |-> Undefined, authorization |-> Undefined,
                           path |-> NoPath]]
           /\ \A i \in 1..Len(wire') :
                wire'[i].body.id = wire'[Len(wire')].body.id
           /\ Phase' = "ACTIVE" ]_vars

C3_Witness ==
    /\ Handled("ping")
    /\ Phase = "ACTIVE"
    /\ Len(wire) = 3
    /\ wire[1].body.type = "hello"
    /\ wire[2].body.type = "sub"
    /\ wire[3].body.type = "ping"

----------------------------------------------------------------------------
(* C4, as stated: an error-free pub invokes the publish handler once with  *)
(* the message, and no other handler, and sends nothing.                   *)
C4_PubOnlyPublishHandler ==
    [][ (event'.kind = "message" /\ ErrorFree(event'.frame, "pub"))
        => /\ Len(calls') = 1
           /\ calls'[1].handler = "pub"
           /\ calls'[1].kind = "message"
           /\ calls'[1].val = event'.frame.message
           /\ wire' = wire
           /\ attempts' = <<>> ]_vars

(* C4, amended: an error-free pub invokes the publish handler exactly once *)
(* with the message field, never the unexpected-message handler, and sends *)
(* nothing; the error handler is invoked only when the publish handler     *)
(* itself raises, and then with the raised error.                          *)
C4_PubForwarded ==
    [][ (event'.kind = "message" /\ ErrorFree(event'.frame, "pub"))
        => /\ Len(calls') >= 1
           /\ calls'[1].handler = "pub"
           /\ calls'[1].kind = "message"
           /\ calls'[1].val = event'.frame.message
           /\ \A i \in 2..Len(calls') :
                /\ calls'[i].handler = "error"
                /\ calls'[i].kind = "exception"
                /\ calls'[i].val = "HandlerError"
           /\ (~calls'[1].threw => Len(calls') = 1)
           /\ Len(calls') <= 2
           /\ wire' = wire
           /\ attempts' = <<>> ]_vars

C4_Witness ==
    /\ Handled("pub")
    /\ event.frame.message = "m1"
    /\ Len(calls) = 1
    /\ calls[1].handler = "pub"
    /\ calls[1].val = "m1"
    /\ ~calls[1].threw

----------------------------------------------------------------------------
(* C5: a send attempted while the socket is not open writes nothing,       *)
(* raises nothing and invokes no handler; and nothing is queued: whatever  *)
(* is written in a step is what that step itself passed to send, with the  *)
(* socket open.                                                            *)
C5_SendWhileNotOpenDropped ==
    [][ /\ (attempts' # <<>> /\ readyState' # "OPEN")
           => (wire' = wire /\ calls' = <<>> /\ ~uncaught')
        /\ (wire' # wire)
           => (readyState' = "OPEN" /\ wire' = wire \o attempts') ]_vars

\* the socket has opened after a subscription attempted while connecting
C5_Witness ==
    /\ event.kind = "subscribeToTopic"
    /\ readyState = "CONNECTING"
    /\ Len(attempts) = 1
    /\ attempts[1].body.type = "sub"
    /\ wire = <<>>

----------------------------------------------------------------------------
(* C6: wsClient.close is called at most once and the close handler is      *)
(* invoked at most once, whatever close calls and transport events occur.  *)
C6_CloseAtMostOnce == wsCloseCalls <= 1 /\ closeCalls <= 1

\* close() called again after a first close() and the socket's closure
C6_Witness ==
    /\ event.kind = "close()"
    /\ readyState = "CLOSED"
    /\ wsCloseCalls = 1
    /\ closeCalls = 1

----------------------------------------------------------------------------
(* C7, as stated: a close() called in any phase but CLOSED, CONNECTING     *)
(* included, makes the connection CLOSED at once.                          *)
C7_CloseClosesAtOnce ==
    [][ (event'.kind = "close()" /\ Phase # "CLOSED")
        => Phase' = "CLOSED" ]_vars

----------------------------------------------------------------------------
(* C8, as stated: once the caller has called close() on an open            *)
(* connection, an inbound string the socket still delivers invokes no      *)
(* handler and sends nothing.                                              *)
C8_FramesAfterCloseIgnored ==
    [][ (event'.kind = "message" /\ wsCloseCalls >= 1)
        => (calls' = <<>> /\ wire' = wire) ]_vars

----------------------------------------------------------------------------
(* C9, as stated: whatever the caller invokes, no sub frame is on the wire *)
(* before an error-free hello has been received.                           *)
C9_NoSubBeforeHelloAck == SubFrames(wire) # {} => helloAck

CallerKinds == {"send", "sendObject", "subscribeToTopic"}

(* C9, amended: the client itself writes no sub frame before an error-free *)
(* hello has been received: a sub frame that is not written by a caller's  *)
(* subscribeToTopic, send or sendObject is written while handling an       *)
(* error-free hello.                                                       *)
C9_OwnSubOnlyOnHelloAck ==
    [][ (SubFrames(wire') # SubFrames(wire) /\ event'.kind \notin CallerKinds)
        => /\ event'.kind = "message"
           /\ ErrorFree(event'.frame, "hello")
           /\ helloAck'
           /\ Len(wire') = Len(wire) + 1 ]_vars

\* the subscription written on the hello acknowledgement, after a caller's
\* operation on the open socket
C9_Witness ==
    /\ Handled("hello")
    /\ helloAck
    /\ Len(wire) = 3
    /\ wire[2].body.type # "sub"
    /\ wire[3].body.type = "sub"
    /\ wire[3].body.path = KnownPath(topic)

----------------------------------------------------------------------------
(* C10, as stated: a pub frame received in a phase other than ACTIVE is    *)
(* not handed to the publish handler.                                      *)
C10_PubOnlyWhenActive ==
    [][ (event'.kind = "message" /\ event'.frame.type = "pub"
           /\ Phase # "ACTIVE")
        => \A i \in 1..Len(calls') : calls'[i].handler # "pub" ]_vars

(* C10, amended: the publish handler is invoked exactly for the inbound    *)
(* pub frames without error, in whatever phase they arrive: the sub        *)
(* acknowledgement is not waited for.                                      *)
C10_PubForwardedInEveryPhase ==
    [][ (\E i \in 1..Len(calls') : calls'[i].handler = "pub")
        <=> (event'.kind = "message" /\ ErrorFree(event'.frame, "pub")) ]_vars

\* a pub handed to the publish handler before the hello acknowledgement
C10_Witness ==
    /\ Handled("pub")
    /\ Phase = "AWAITING_HELLO_ACK"
    /\ Len(calls) >= 1
    /\ calls[1].handler = "pub"
    /\ calls[1].val = "m1"

----------------------------------------------------------------------------
(* C11, as stated: whatever the server sends, at most one sub frame is     *)
(* written by the client on a connection.                                  *)
C11_AtMostOneSub == Cardinality(SubFrames(wire)) <= 1

(* C11, amended: the client writes one sub frame for every error-free      *)
(* hello it receives on the open socket, also for a repeated hello and for *)
(* a hello received while ACTIVE, and for nothing else; a hello received   *)
(* while ACTIVE leaves the phase ACTIVE.                                   *)
C11_OneSubPerHello ==
    [][ /\ (event'.kind = "message" /\ ErrorFree(event'.frame, "hello")
              /\ readyState = "OPEN")
           => /\ Len(wire') = Len(wire) + 1
              /\ SubSeq(wire', 1, Len(wire)) = wire
              /\ wire'[Len(wire')].body.type = "sub"
              /\ wire'[Len(wire')].body.path = KnownPath(topic)
              /\ (Phase = "ACTIVE" => Phase' = "ACTIVE")
        /\ (SubFrames(wire') # SubFrames(wire))
           => (event'.kind = "message" /\ ErrorFree(event'.frame, "hello")) ]_vars

\* a second sub frame, written for a hello received while ACTIVE
C11_Witness ==
    /\ Handled("hello")
    /\ Phase = "ACTIVE"
    /\ Len(wire) = 3
    /\ wire[2].body.type = "sub"
    /\ wire[3].body.type = "sub"

----------------------------------------------------------------------------
(* C12: the credential is presented exactly once per connection. The open  *)
(* event writes one hello frame (type hello, version "2", id = clientId,   *)
(* authorization = the credential) and that frame is the first frame on    *)
(* the wire; nothing is written before the socket opened; no later event   *)
(* writes another hello frame, and no other frame carries the credential.  *)
C12_CredentialOnce ==
    /\ ~opened => wire = <<>>
    /\ opened =>
         /\ Len(wire) >= 1
         /\ wire[1] = JSONStringify(Obj("hello", ClientId, "2", Authorization, NoPath))
         /\ \A i \in 2..Len(wire) :
               /\ wire[i].json
               /\ wire[i].body.type \in {"sub", "ping"}
               /\ wire[i].body.authorization = Undefined
               /\ wire[i].body.version = Undefined

\* a hello, a sub and a ping answer on the wire, the credential in the first
C12_Witness ==
    /\ Len(wire) = 3
    /\ wire[1].body.authorization = Authorization
    /\ wire[2].body.type = "sub"
    /\ wire[3].body.type = "ping"
    /\ Handled("ping")

----------------------------------------------------------------------------
(* C13, as stated: for every inbound frame that cannot be decoded, the     *)
(* error handler is invoked exactly once with the raw payload of that      *)
(* frame, no other handler is invoked, nothing is sent and the phase is    *)
(* unchanged.                                                              *)
C13_DecodeFailureRawPayload ==
    [][ (event'.kind = "message" /\ event'.frame.json = "garbage")
        => /\ Len(calls') = 1
           /\ calls'[1].handler = "error"
           /\ calls'[1].kind = "data"
           /\ calls'[1].frame = event'.frame
           /\ wire' = wire
           /\ attempts' = <<>>
           /\ Phase' = Phase ]_vars

(* C13, amended: for every inbound frame that cannot be decoded, the error *)
(* handler is invoked exactly once, with the exception JSON.parse raised   *)
(* and not with the raw payload; no other handler is invoked, nothing is   *)
(* sent and the phase is unchanged.                                        *)
C13_DecodeFailureCaughtError ==
    [][ (event'.kind = "message" /\ event'.frame.json = "garbage")
        => /\ Len(calls') = 1
           /\ calls'[1].handler = "error"
           /\ calls'[1].kind = "exception"
           /\ calls'[1].val = "SyntaxError"
           /\ calls'[1].frame = NoFrame
           /\ wire' = wire
           /\ attempts' = <<>>
           /\ Phase' = Phase ]_vars

\* an undecodable frame received while waiting for the hello acknowledgement
C13_Witness ==
    /\ event.kind = "message"
    /\ event.frame.json = "garbage"
    /\ Phase = "AWAITING_HELLO_ACK"
    /\ Len(calls) = 1
    /\ calls[1].val = "SyntaxError"

----------------------------------------------------------------------------
\* an inbound frame that decodes, has no truthy payload.error and has a type
\* that is none of hello, sub, ping, pub (a missing type included)
Unrecognised(data) ==
    /\ data.json \in {"object", "scalar", "null"}
    /\ ~Truthy(PayloadError(data))
    /\ data.type \notin {"hello", "sub", "ping", "pub"}

(* C14, as stated: every inbound frame that decodes successfully, has no   *)
(* truthy payload.error and has an unrecognised or missing type gets the   *)
(* unexpected-message handler invoked exactly once with the raw frame; the *)
(* error and publish handlers are not invoked, nothing is sent, the phase  *)
(* is unchanged.                                                           *)
C14_UnexpectedOnly ==
    [][ (event'.kind = "message" /\ Unrecognised(event'.frame))
        => /\ Len(calls') = 1
           /\ calls'[1].handler = "unexpected"
           /\ calls'[1].kind = "data"
           /\ calls'[1].frame = event'.frame
           /\ wire' = wire
           /\ attempts' = <<>>
           /\ Phase' = Phase ]_vars

(* C14, amended: such a frame, when it decodes to a value other than null, *)
(* gets the unexpected-message handler invoked exactly once, first, with   *)
(* the raw frame; the publish handler is not invoked; the error handler is *)
(* invoked (once, with the exception) exactly when the unexpected-message  *)
(* handler raised. A frame that decodes to null reaches no handler but the *)
(* error handler, with the TypeError of reading its fields. In both cases  *)
(* nothing is sent and the phase is unchanged.                             *)
C14_UnexpectedForwarded ==
    [][ (event'.kind = "message" /\ Unrecognised(event'.frame))
        => /\ wire' = wire
           /\ attempts' = <<>>
           /\ Phase' = Phase
           /\ event'.frame.json # "null"
              => /\ Len(calls') >= 1
                 /\ calls'[1].handler = "unexpected"
                 /\ calls'[1].kind = "data"
                 /\ calls'[1].frame = event'.frame
                 /\ Len(calls') = (IF calls'[1].threw THEN 2 ELSE 1)
                 /\ calls'[1].threw
                    => /\ calls'[2].handler = "error"
                       /\ calls'[2].kind = "exception"
                       /\ calls'[2].val = "HandlerError"
           /\ event'.frame.json = "null"
              => /\ Len(calls') = 1
                 /\ calls'[1].handler = "error"
                 /\ calls'[1].kind = "exception"
                 /\ calls'[1].val = "TypeError" ]_vars

\* a frame of an unknown type, forwarded to the unexpected-message handler
C14_Witness ==
    /\ event.kind = "message"
    /\ event.frame.json = "object"
    /\ Unrecognised(event.frame)
    /\ event.frame.type # Undefined
    /\ Len(calls) = 1
    /\ calls[1].handler = "unexpected"
    /\ calls[1].frame = event.frame

----------------------------------------------------------------------------
\* the step to the primed state took an error path and left the socket open:
\* an error frame, a decode failure, an unexpected message or a transport
\* error event
ErrorPathStep ==
    /\ readyState' = "OPEN"
    /\ \/ event'.kind = "error"
       \/ /\ event'.kind = "message"
          /\ \/ event'.frame.json \in {"garbage", "null", "scalar"}
             \/ Truthy(PayloadError(event'.frame))
             \/ event'.frame.type \notin {"hello", "sub", "ping", "pub"}

\* the latest step took an error path and left the socket open
AfterErrorPath ==
    /\ readyState = "OPEN"
    /\ \/ event.kind = "error"
       \/ /\ event.kind = "message"
          /\ \/ event.frame.json \in {"garbage", "null", "scalar"}
             \/ Truthy(PayloadError(event.frame))
             \/ event.frame.type \notin {"hello", "sub", "ping", "pub"}

(* C15: an error path ends the handling of the current frame only. A step  *)
(* that handles an error frame, a decode failure, an unexpected message or *)
(* a transport error event with the socket still open leaves the phase,    *)
(* the acknowledgements, the socket and the wire as they were; and the     *)
(* frame that comes next is handled as usual: an error-free hello is       *)
(* answered by the sub frame, a ping by the ping answer, a pub reaches the *)
(* publish handler, a sub acknowledgement after the hello one makes the    *)
(* connection ACTIVE.                                                      *)
C15_ErrorPathsLocal ==
    [][ /\ ErrorPathStep
           => /\ Phase' = Phase
              /\ helloAck' = helloAck
              /\ subAck' = subAck
              /\ wire' = wire
              /\ topic' = topic
              /\ wsCloseCalls' = wsCloseCalls
              /\ (event'.kind = "message" => readyState' = readyState)
        /\ (AfterErrorPath /\ event'.kind = "message")
           => /\ ErrorFree(event'.frame, "hello")
                 => /\ wire' = Append(wire, JSONStringify(SubscribePayload(DeviceId, topic)))
                    /\ helloAck'
              /\ ErrorFree(event'.frame, "ping")
                 => wire' = Append(wire, JSONStringify(PingResponsePayload))
              /\ ErrorFree(event'.frame, "pub")
                 => /\ calls'[1].handler = "pub"
                    /\ calls'[1].val = event'.frame.message
                    /\ wire' = wire
              /\ (ErrorFree(event'.frame, "sub") /\ helloAck)
                 => Phase' = "ACTIVE" ]_vars

\* an error frame was received while waiting for the hello acknowledgement
C15_Witness ==
    /\ AfterErrorPath
    /\ event.kind = "message"
    /\ Truthy(PayloadError(event.frame))
    /\ Phase = "AWAITING_HELLO_ACK"
    /\ wire = <<JSONStringify(HelloPayload)>>

----------------------------------------------------------------------------
(* C16: a transport error event invokes the error handler with the error   *)
(* event and nothing else: no frame is written, the socket is not closed   *)
(* by the client. There is one socket per client: it opens at most once    *)
(* and, once CLOSED, stays CLOSED; and once it is CLOSED no frame is ever  *)
(* written again, whatever the caller sends.                               *)
C16_TransportErrorNoRecovery ==
    [][ /\ event'.kind = "error"
           => /\ event'.frame \in ErrorEvents
              /\ Len(calls') = 1
              /\ calls'[1].handler = "error"
              /\ calls'[1].kind = "event"
              /\ calls'[1].frame = event'.frame
              /\ wire' = wire
              /\ attempts' = <<>>
              /\ wsCloseCalls' = wsCloseCalls
              /\ readyState' # "CONNECTING" \/ readyState = "CONNECTING"
        /\ event'.kind = "open" => ~opened
        /\ readyState = "CLOSED"
           => /\ readyState' = "CLOSED"
              /\ wire' = wire ]_vars

\* a transport error on the open socket, after the handshake frames were written
C16_Witness ==
    /\ event.kind = "error"
    /\ event.frame = ErrorEvent("ECONNRESET")
    /\ readyState = "OPEN"
    /\ Len(wire) = 2
    /\ calls[1].handler = "error"
    /\ calls[1].frame = event.frame

----------------------------------------------------------------------------
(* C17: every closure is surfaced through the close handler and never      *)
(* through the error handler. When the transport reports a close event,    *)
(* the close handler, and no other handler, is invoked once with the close *)
(* event (code and reason); the socket becomes CLOSED by no other step;    *)
(* and, the transport reporting the closure it was asked for, a close()    *)
(* on the open connection is eventually followed by the close handler.     *)
C17_ClosureToCloseHandler ==
    /\ [][ /\ event'.kind = "close"
              => /\ event'.frame \in CloseEvents
                 /\ Len(calls') = 1
                 /\ calls'[1].handler = "close"
                 /\ calls'[1].kind = "event"
                 /\ calls'[1].frame = event'.frame
                 /\ closeCalls' = closeCalls + 1
           /\ (readyState # "CLOSED" /\ readyState' = "CLOSED")
              => event'.kind = "close"
           /\ closeCalls' # closeCalls => event'.kind = "close" ]_vars
    /\ (wsCloseCalls = 1) ~> (closeCalls = 1 /\ readyState = "CLOSED")

\* the close handler invoked with code 1000 after the caller closed the
\* open connection
C17_Witness ==
    /\ event.kind = "close"
    /\ event.frame = CloseEvent("1000", "bye")
    /\ wsCloseCalls = 1
    /\ closeCalls = 1
    /\ Len(calls) = 1
    /\ calls[1].handler = "close"
    /\ calls[1].frame = event.frame

----------------------------------------------------------------------------
(* C18: while the connection is ACTIVE and the socket open, ping and pub   *)
(* frames are handled one after the other in the order of receipt: the     *)
(* sequence of ping answers written and publish handler invocations made   *)
(* is exactly the sequence of the error-free ping and pub frames received, *)
(* each pub with its own message.                                          *)
C18_HandledInReceiptOrder == handled = received

\* a pub, a ping and another pub, received and handled in that order
C18_Witness ==
    /\ Phase = "ACTIVE"
    /\ received = <<Entry("pub", "m1"), Entry("ping", Undefined),
                    Entry("pub", Undefined)>>
    /\ handled = received
    /\ Len(wire) = 3

----------------------------------------------------------------------------
\* the latest event had a handler or wsClient.send raise inside the message
\* handler, and the error handler took the exception without failing
RaisedAndCaught ==
    /\ event.kind = "message"
    /\ ~uncaught
    /\ \E i \in 1..Len(calls) :
         calls[i].handler = "error" /\ calls[i].kind = "exception"
           /\ calls[i].val \in {"HandlerError", "SendError"}

(* C19: an exception raised while an inbound frame is handled, by the      *)
(* publish handler, by the unexpected-message handler or by the socket's   *)
(* send, does not leave the message handler: it is passed to the error     *)
(* handler, so that one frame invokes its own handler and then the error   *)
(* handler; an exception leaves the message handler only when the error    *)
(* handler itself raised. After such a frame the next pub frame still      *)
(* reaches the publish handler.                                            *)
C19_RaisedErrorsCaught ==
    [][ /\ event'.kind = "message"
           => /\ uncaught'
                 => \E i \in 1..Len(calls') :
                       calls'[i].handler = "error" /\ calls'[i].threw
              /\ (Len(calls') >= 1 /\ calls'[1].handler \in {"pub", "unexpected"}
                    /\ calls'[1].threw)
                 => /\ Len(calls') = 2
                    /\ calls'[2].handler = "error"
                    /\ calls'[2].kind = "exception"
                    /\ calls'[2].val = "HandlerError"
              /\ (readyState = "OPEN" /\ attempts' # <<>> /\ wire' = wire)
                 => /\ Len(calls') = 1
                    /\ calls'[1].handler = "error"
                    /\ calls'[1].kind = "exception"
                    /\ calls'[1].val = "SendError"
        /\ (RaisedAndCaught /\ event'.kind = "message"
              /\ ErrorFree(event'.frame, "pub"))
           => /\ Len(calls') >= 1
              /\ calls'[1].handler = "pub"
              /\ calls'[1].val = event'.frame.message ]_vars

\* a pub frame whose publish handler raised: both handlers invoked
C19_Witness ==
    /\ Handled("pub")
    /\ ~uncaught
    /\ Len(calls) = 2
    /\ calls[1].handler = "pub"
    /\ calls[1].threw
    /\ calls[2].handler = "error"
    /\ calls[2].val = "HandlerError"

----------------------------------------------------------------------------
(* C20: when the socket opens and stays open and the server answers the    *)
(* hello frame and the sub frame it receives without error, then, events   *)
(* being delivered fairly, the connection eventually is ACTIVE, with the   *)
(* hello and the sub frame written, and stays so. As long as the server    *)
(* does not answer, the connection stays in AWAITING_HELLO_ACK (or in      *)
(* SUBSCRIBING) and writes no further frame: no other frame, no transport  *)
(* error and no lapse of time moves it on or makes it send again.          *)
C20_HandshakeCompletes ==
    /\ <>[](Phase = "ACTIVE" /\ Len(wire) = 2 /\ wire[2].body.type = "sub")
    /\ [][ /\ (Phase = "AWAITING_HELLO_ACK"
                 /\ ~(event'.kind = "message" /\ ErrorFree(event'.frame, "hello")))
              => (Phase' = "AWAITING_HELLO_ACK" /\ wire' = wire)
           /\ (Phase = "SUBSCRIBING"
                 /\ ~(event'.kind = "message" /\ ErrorFree(event'.frame, "sub")))
              => (Phase' = "SUBSCRIBING" /\ wire' = wire)
           /\ wire' # wire
              => (event'.kind = "open"
                    \/ (event'.kind = "message" /\ ErrorFree(event'.frame, "hello")))
       ]_vars

\* the sub acknowledgement has made the connection ACTIVE
C20_Witness ==
    /\ Phase = "ACTIVE"
    /\ Handled("sub")
    /\ wire = <<JSONStringify(HelloPayload),
                JSONStringify(SubscribePayload(DeviceId, topic))>>

====
